---- MODULE Spec2Model ----
(***************************************************************************)
(* Model of solarcalc.calc_solar_rad and of the functions it calls         *)
(* (src/solarcalc.py).                                                     *)
(*                                                                         *)
(* Numbers.  The program computes in IEEE binary64.  The model computes in *)
(* a decimal fixed-point format with the same special values: a number is  *)
(* a record [k |-> "num", v |-> n] standing for n / Scale, or NaN, or      *)
(* +Inf / -Inf.  A finite result whose magnitude exceeds FMax / Scale      *)
(* (1e6) overflows to an infinity, as binary64 does beyond 1.8e308; invalid*)
(* operations (0/0, Inf - Inf, 0 * Inf, x % 0, arccos outside [-1, 1])     *)
(* give NaN and raise nothing, as numpy does (only a RuntimeWarning).      *)
(* Comparisons with NaN are false.                                         *)
(*                                                                         *)
(* Dates are day numbers (day 1 = 1979-01-01), timestamps are hour numbers *)
(* (24 * day + hour).                                                      *)
(***************************************************************************)
EXTENDS Integers, Sequences, FiniteSets, TLC

\* ------------------------------------------------------------------------
\* Fixed-point stand-in for binary64
\* ------------------------------------------------------------------------
Scale == 10 * 10 * 10
FMax == 1000 * 1000 * Scale

Num(n) == [k |-> "num", v |-> n]
NaN == [k |-> "nan", v |-> 0]
PInf == [k |-> "inf", v |-> 1]
NInf == [k |-> "inf", v |-> -1]
Lit(n) == Num(n * Scale)

IsNum(x) == x.k = "num"
IsNaN(x) == x.k = "nan"
IsInf(x) == x.k = "inf"

IAbs(n) == IF n < 0 THEN -n ELSE n
ISgn(n) == IF n < 0 THEN -1 ELSE IF n > 0 THEN 1 ELSE 0
SgnInf(s) == IF s < 0 THEN NInf ELSE PInf

\* integer division rounded to the nearest, d # 0
RDiv(n, d) ==
    ISgn(n) * ISgn(d) * ((IAbs(n) \div IAbs(d)) +
                         (IF 2 * (IAbs(n) % IAbs(d)) >= IAbs(d) THEN 1 ELSE 0))

\* a finite result, overflowing to an infinity beyond the format's range
Ovf(n) == IF n > FMax THEN PInf ELSE IF n < -FMax THEN NInf ELSE Num(n)

FNeg(x) == IF IsNaN(x) THEN NaN ELSE [k |-> x.k, v |-> -x.v]

FAbs(x) == IF IsNaN(x) THEN NaN ELSE [k |-> x.k, v |-> IAbs(x.v)]

FAdd(a, b) ==
    IF IsNaN(a) \/ IsNaN(b) THEN NaN
    ELSE IF IsInf(a) /\ IsInf(b) THEN (IF a.v = b.v THEN a ELSE NaN)
    ELSE IF IsInf(a) THEN a
    ELSE IF IsInf(b) THEN b
    ELSE Ovf(a.v + b.v)

FSub(a, b) == FAdd(a, FNeg(b))

\* |a| * |b| / Scale for finite a, b, by halves so that no intermediate
\* product leaves the 32-bit integers TLC computes with
MulAbs(x, y) ==
    LET xh == x \div Scale
        xl == x % Scale
        yh == y \div Scale
        yl == y % Scale
    IN  IF xh # 0 /\ yh # 0 /\ xh > (FMax \div Scale) \div yh THEN FMax + 1
        ELSE xh * yh * Scale + xh * yl + xl * yh + RDiv(xl * yl, Scale)

FMul(a, b) ==
    IF IsNaN(a) \/ IsNaN(b) THEN NaN
    ELSE IF IsInf(a) \/ IsInf(b)
         THEN (IF a.v = 0 \/ b.v = 0 THEN NaN ELSE SgnInf(ISgn(a.v) * ISgn(b.v)))
    ELSE Ovf(ISgn(a.v) * ISgn(b.v) * MulAbs(IAbs(a.v), IAbs(b.v)))

\* |a| * Scale / |b| for finite a, b # 0, by long division
DivAbs(x, y) ==
    IF y > 200 * 1000 * Scale THEN 0
    ELSE LET q0 == x \div y
             r0 == x % y
             d1 == (r0 * 10) \div y
             r1 == (r0 * 10) % y
             d2 == (r1 * 10) \div y
             r2 == (r1 * 10) % y
             d3 == (r2 * 10) \div y
             r3 == (r2 * 10) % y
         IN  IF q0 > FMax \div Scale THEN FMax + 1
             ELSE q0 * Scale + d1 * 100 + d2 * 10 + d3 + (IF 2 * r3 >= y THEN 1 ELSE 0)

FDiv(a, b) ==
    IF IsNaN(a) \/ IsNaN(b) THEN NaN
    ELSE IF IsInf(a) THEN (IF IsInf(b) THEN NaN
                           ELSE SgnInf(a.v * (IF b.v < 0 THEN -1 ELSE 1)))
    ELSE IF IsInf(b) THEN Num(0)
    ELSE IF b.v = 0 THEN (IF a.v = 0 THEN NaN ELSE SgnInf(a.v))
    ELSE Ovf(ISgn(a.v) * ISgn(b.v) * DivAbs(IAbs(a.v), IAbs(b.v)))

\* x % y with the sign of the divisor (Python and numpy); x % 0 is NaN
FMod(a, b) ==
    IF IsNaN(a) \/ IsNaN(b) \/ IsInf(a) THEN NaN
    ELSE IF IsInf(b) THEN (IF ISgn(a.v) * b.v >= 0 THEN a ELSE b)
    ELSE IF b.v = 0 THEN NaN
    ELSE IF b.v > 0 THEN Num(a.v % b.v)
    ELSE Num(-((-a.v) % (-b.v)))

\* np.sign
FSign(x) == IF IsNaN(x) THEN NaN ELSE Lit(ISgn(x.v))

\* position on the extended real line, for comparisons of non-NaN values
Rank(x) == IF IsInf(x) THEN x.v * (FMax + 1) ELSE x.v

FLt(a, b) == ~IsNaN(a) /\ ~IsNaN(b) /\ Rank(a) < Rank(b)
FLe(a, b) == ~IsNaN(a) /\ ~IsNaN(b) /\ Rank(a) <= Rank(b)
FGt(a, b) == FLt(b, a)
FEq(a, b) == ~IsNaN(a) /\ ~IsNaN(b) /\ Rank(a) = Rank(b)
FNe(a, b) == ~FEq(a, b)

\* np.round(x, 2): to the nearest hundredth, halves to the even neighbour
Round2(x) ==
    IF ~IsNum(x) THEN x
    ELSE LET q == x.v \div 10
             r == x.v % 10
         IN  Num(10 * (IF r < 5 THEN q
                       ELSE IF r > 5 THEN q + 1
                       ELSE IF q % 2 = 0 THEN q ELSE q + 1))

\* ------------------------------------------------------------------------
\* numpy's elementary functions, in the fixed-point format
\* ------------------------------------------------------------------------
\* np.pi and 2 * np.pi, in thousandths
Pi == 3142
TwoPi == 6283

\* 1000 * sin(d degrees), d = 0 .. 90
SinTab == <<
    0, 17, 35, 52, 70, 87, 105, 122, 139, 156, 174, 191, 208,
    225, 242, 259, 276, 292, 309, 326, 342, 358, 375, 391, 407, 423,
    438, 454, 469, 485, 500, 515, 530, 545, 559, 574, 588, 602, 616,
    629, 643, 656, 669, 682, 695, 707, 719, 731, 743, 755, 766, 777,
    788, 799, 809, 819, 829, 839, 848, 857, 866, 875, 883, 891, 899,
    906, 914, 921, 927, 934, 940, 946, 951, 956, 961, 966, 970, 974,
    978, 982, 985, 988, 990, 993, 995, 996, 998, 999, 999, 1000, 1000 >>

\* sine of md thousandths of a degree, 0 <= md <= 90000, interpolated
SinQuadrant(md) ==
    LET d == md \div 1000
        f == md % 1000
    IN  IF d >= 90 THEN SinTab[91]
        ELSE SinTab[d + 1] + RDiv((SinTab[d + 2] - SinTab[d + 1]) * f, 1000)

\* sine of md thousandths of a degree, any md
SinMilliDeg(md) ==
    LET m == md % 360000
    IN  IF m <= 90000 THEN SinQuadrant(m)
        ELSE IF m <= 180000 THEN SinQuadrant(180000 - m)
        ELSE IF m <= 270000 THEN -SinQuadrant(m - 180000)
        ELSE -SinQuadrant(360000 - m)

\* radians (thousandths) to thousandths of a degree, reduced to one turn
RadToMilliDeg(r) == RDiv((r % TwoPi) * 180000, Pi)

\* np.sin, np.cos (argument in radians)
Sin(x) == IF ~IsNum(x) THEN NaN ELSE Num(SinMilliDeg(RadToMilliDeg(x.v)))
Cos(x) == IF ~IsNum(x) THEN NaN ELSE Num(SinMilliDeg(RadToMilliDeg(x.v) + 90000))

CosDeg(d) == SinMilliDeg(d * 1000 + 90000)

\* the largest degree lo in 0 .. 179 with cos(lo) > c (0 if none), by bisection
RECURSIVE ArcCosBisect(_, _, _)
ArcCosBisect(c, lo, hi) ==
    IF hi - lo <= 1 THEN lo
    ELSE LET mid == (lo + hi) \div 2
         IN  IF CosDeg(mid) > c THEN ArcCosBisect(c, mid, hi)
             ELSE ArcCosBisect(c, lo, mid)

\* np.arccos: radians in [0, pi]; NaN outside [-1, 1] (no exception)
ArcCos(x) ==
    IF ~IsNum(x) \/ x.v > Scale \/ x.v < -Scale THEN NaN
    ELSE LET lo == ArcCosBisect(x.v, 0, 180)
             span == CosDeg(lo) - CosDeg(lo + 1)
             frac == IF span = 0 THEN 0 ELSE RDiv((CosDeg(lo) - x.v) * 1000, span)
         IN  Num(RDiv((lo * 1000 + frac) * Pi, 180000))

\* np.arcsin: radians in [-pi/2, pi/2]; NaN outside [-1, 1]
ArcSin(x) == FSub(Num(RDiv(Pi, 2)), ArcCos(x))

RECURSIVE Pow2(_)
Pow2(n) == IF n <= 0 THEN 1 ELSE 2 * Pow2(n - 1)

\* np.exp: 2^k * e^r with r in [0, ln 2), e^r by its Taylor series;
\* overflows to +Inf, underflows to 0
Exp(y) ==
    IF IsNaN(y) THEN NaN
    ELSE IF IsInf(y) THEN (IF y.v > 0 THEN PInf ELSE Num(0))
    ELSE LET ln2 == 693
             k == y.v \div ln2
             r == y.v - k * ln2
             t2 == RDiv(r * r, 2 * Scale)
             t3 == RDiv(t2 * r, 3 * Scale)
             t4 == RDiv(t3 * r, 4 * Scale)
             t5 == RDiv(t4 * r, 5 * Scale)
             er == Scale + r + t2 + t3 + t4 + t5
         IN  IF k >= 20 THEN PInf
             ELSE IF k <= -12 THEN Num(0)
             ELSE IF k >= 0 THEN Ovf(er * Pow2(k))
             ELSE Num(RDiv(er, Pow2(-k)))

\* <<n', k'>> with n' in [Scale, 2 * Scale) and n' * 2^k' = n * 2^k
RECURSIVE LnNorm(_, _)
LnNorm(n, k) ==
    IF n < Scale THEN LnNorm(2 * n, k - 1)
    ELSE IF n >= 2 * Scale THEN LnNorm(n \div 2, k + 1)
    ELSE <<n, k>>

\* np.log: x = n * 2^k with n in [1, 2), ln x = ln n + k ln 2, ln n by the atanh series
Ln(x) ==
    IF IsNaN(x) THEN NaN
    ELSE IF IsInf(x) THEN (IF x.v > 0 THEN PInf ELSE NaN)
    ELSE IF x.v < 0 THEN NaN
    ELSE IF x.v = 0 THEN NInf
    ELSE LET ln2 == 693
             nk == LnNorm(x.v, 0)
             z == RDiv((nk[1] - Scale) * Scale, nk[1] + Scale)
             z2 == RDiv(z * z, Scale)
             z3 == RDiv(z * z2, Scale)
             z5 == RDiv(z3 * z2, Scale)
             z7 == RDiv(z5 * z2, Scale)
         IN  Num(2 * (z + RDiv(z3, 3) + RDiv(z5, 5) + RDiv(z7, 7)) + nk[2] * ln2)

\* np.power(t, m) for a base t >= 0
Power(t, m) ==
    IF IsNaN(t) \/ IsNaN(m) THEN NaN
    ELSE IF IsNum(m) /\ m.v = 0 THEN Lit(1)
    ELSE IF IsNum(t) /\ t.v = Scale THEN Lit(1)
    ELSE Exp(FMul(m, Ln(t)))

PiF == Num(Pi)

\* ------------------------------------------------------------------------
\* pandas: dates and the hourly index
\* ------------------------------------------------------------------------
\* 1979 is year 0 of the day numbering; 1980 is a leap year
YearLen(y) == IF (1979 + y) % 4 = 0 THEN 366 ELSE 365

\* DatetimeIndex.dayofyear of day number d >= 1, counting from year y
RECURSIVE DayOfYearFrom(_, _)
DayOfYearFrom(d, y) ==
    IF d <= YearLen(y) THEN d ELSE DayOfYearFrom(d - YearLen(y), y + 1)

DayOfYear(d) == DayOfYearFrom(d, 0)

\* timestamp of hour h of day d
Stamp(d, h) == 24 * d + h

\* DateRange with the end excluded
DateRangeOpenEnd(start, end) ==
    IF end <= start THEN << >> ELSE [n \in 1..(end - start) |-> start + n - 1]

\* pd.date_range(start=start, end=end, freq='H'): every hour from start to
\* end inclusive, empty when end is before start
DateRange(start, end) ==
    IF end < start THEN << >> ELSE [n \in 1..(end - start + 1) |-> start + n - 1]

\* ------------------------------------------------------------------------
\* solarcalc.py
\* ------------------------------------------------------------------------
\* calc_eqn_of_time (0.98565 is 0.986 in the fixed-point format)
calc_eqn_of_time(dayofyear) ==
    LET f == FDiv(FMul(FAdd(Num(279575), FMul(Num(986), Lit(dayofyear))), PiF),
                  Lit(180))
    IN  FDiv(FAdd(FAdd(FAdd(FAdd(FAdd(FAdd(
                 FMul(Num(-104700), Sin(f)),
                 FMul(Num(596200), Sin(FMul(Lit(2), f)))),
                 FMul(Num(4300), Sin(FMul(Lit(3), f)))),
                 FMul(Num(-12700), Sin(FMul(Lit(4), f)))),
                 FMul(Num(-429300), Cos(f))),
                 FMul(Num(-2000), Cos(FMul(Lit(2), f)))),
                 FMul(Num(19300), Cos(FMul(Lit(3), f)))),
             Lit(3600))

\* calc_long_corr
calc_long_corr(lon_dd) ==
    LET lstm == FSub(lon_dd, FMod(lon_dd, FMul(FSign(lon_dd), Lit(15))))
    IN  FMul(FSub(lon_dd, lstm), FDiv(Lit(24), Lit(360)))

\* calc_solar_declination (0.9856, 1.9165, 0.39785 are 0.986, 1.917, 0.398)
calc_solar_declination(dayofyear) ==
    LET t1 == FAdd(FAdd(Num(278970), FMul(Num(986), Lit(dayofyear))),
                   FMul(Num(1917),
                        Sin(FDiv(FMul(FAdd(Num(356600),
                                           FMul(Num(986), Lit(dayofyear))),
                                      PiF),
                                 Lit(180)))))
        t2 == Sin(FDiv(FMul(t1, PiF), Lit(180)))
    IN  ArcSin(FMul(Num(398), t2))

\* calc_zenith_angle, for an array t of times
calc_zenith_angle(lat_rad, solar_dec, t, solar_noon) ==
    LET sinsin == FMul(Sin(lat_rad), Sin(solar_dec))
        coscos == FMul(Cos(lat_rad), Cos(solar_dec))
    IN  [n \in DOMAIN t |->
            LET hour_angle == FDiv(FMul(FMul(Lit(15), FSub(solar_noon, t[n])), PiF),
                                   Lit(180))
            IN  ArcCos(FAdd(sinsin, FMul(coscos, Cos(hour_angle))))]

\* calc_halfdaylength, lines 203-205: the argument A/B of the arccos
HalfDayRatio(solar_dec, lat_rad, twilight) ==
    LET psi == IF twilight THEN 96 ELSE 90
        A == FSub(Cos(FDiv(FMul(Lit(psi), PiF), Lit(180))),
                  FMul(Sin(lat_rad), Sin(solar_dec)))
        B == FMul(Cos(lat_rad), Cos(solar_dec))
    IN  FDiv(A, B)

\* calc_halfdaylength
calc_halfdaylength(solar_dec, lat_rad, twilight) ==
    FDiv(FMul(ArcCos(HalfDayRatio(solar_dec, lat_rad, twilight)),
              FDiv(Lit(180), PiF)),
         Lit(15))

\* np.radians
Radians(x) == FDiv(FMul(x, PiF), Lit(180))

\* line 244: rain flag of one day, (ptot_mm > 1).astype(int)
Rain(ptot_mm) == IF FGt(ptot_mm, Lit(1)) THEN 1 ELSE 0

\* DeltaT without the absolute value
DeltaTSigned(tamax_degC, tamin_degC) == FSub(tamax_degC, tamin_degC)

\* lines 245-246: (tamax_degC - tamin_degC).abs()
DeltaT(tamax_degC, tamin_degC) == FAbs(FSub(tamax_degC, tamin_degC))

\* lines 258-264: solar noon of one day
SolarNoon(lon_dd, dayofyear) ==
    FSub(FSub(Lit(12), calc_long_corr(lon_dd)), calc_eqn_of_time(dayofyear))

\* TauRain without the guard i > 0: rain[i - 1] is then rain[-1], the last day
TauRainWrap(rain, n, i) ==
    LET prev == IF i > 0 THEN rain[i] ELSE rain[n]
        tau1 == Num(700)
        tau2 == IF rain[i + 1] = 1 THEN Num(400) ELSE tau1
        tau3 == IF rain[i + 1] = 1 /\ prev = 1 THEN Num(300) ELSE tau2
        tau4 == IF i < n - 1 /\ rain[i + 1] = 0 /\ rain[i + 2] = 1 THEN Num(600)
                ELSE tau3
    IN  tau4

\* TauRain with rule 4 applied whatever the day's own rain flag
TauRainAnyDay(rain, n, i) ==
    LET tau1 == Num(700)
        tau2 == IF rain[i + 1] = 1 THEN Num(400) ELSE tau1
        tau3 == IF i > 0 /\ rain[i + 1] = 1 /\ rain[i] = 1 THEN Num(300) ELSE tau2
        tau4 == IF i < n - 1 /\ rain[i + 2] = 1 THEN Num(600) ELSE tau3
    IN  tau4

\* lines 275-289: transmittance of day i (0-based) of n days by the rain rules
TauRain(rain, n, i) ==
    LET tau1 == Num(700)
        tau2 == IF rain[i + 1] = 1 THEN Num(400) ELSE tau1
        tau3 == IF i > 0 /\ rain[i + 1] = 1 /\ rain[i] = 1 THEN Num(300) ELSE tau2
        tau4 == IF i < n - 1 /\ rain[i + 1] = 0 /\ rain[i + 2] = 1 THEN Num(600)
                ELSE tau3
    IN  tau4

\* TauTemp without the upper limit on the temperature range
TauTempNoLimit(tau, lat_dd, deltaT_i) ==
    IF FLt(FAbs(lat_dd), Lit(60))
    THEN (IF FNe(deltaT_i, Lit(0))
          THEN FDiv(tau, FSub(Lit(11), deltaT_i))
          ELSE tau)
    ELSE tau

\* lines 291-295: the temperature-range rule
TauTemp(tau, lat_dd, deltaT_i) ==
    IF FLt(FAbs(lat_dd), Lit(60))
    THEN (IF FLe(deltaT_i, Lit(10)) /\ FNe(deltaT_i, Lit(0))
          THEN FDiv(tau, FSub(Lit(11), deltaT_i))
          ELSE tau)
    ELSE tau

\* line 311: solar constant in W/m2
Spo == 1360

\* lines 316 and 321: the mask (time < sunrise) | (time > sunset)
OutsideDaylight(time, sunrise, sunset) == FLt(time, sunrise) \/ FGt(time, sunset)

\* line 298: np.arange(24)
time == [n \in 1..24 |-> Lit(n - 1)]

\* lines 305-309: optical air mass number, for each hour
AirMass(alt, zenith_angle) ==
    LET Pa == FMul(Num(101300), Exp(FDiv(FMul(Lit(-1), alt), Lit(8200))))
    IN  [n \in 1..24 |-> FDiv(FDiv(Pa, Num(101300)), Cos(zenith_angle[n]))]

\* lines 315-316: beam irradiance, for each hour
BeamIrradiance(tau, m, zenith_angle, sunrise, sunset) ==
    [n \in 1..24 |->
        IF OutsideDaylight(time[n], sunrise, sunset) THEN Num(0)
        ELSE FMul(FMul(Lit(Spo), Power(tau, m[n])), Cos(zenith_angle[n]))]

\* DiffuseIrradiance without the mask of line 321
DiffuseIrradianceNoMask(tau, m, zenith_angle, sunrise, sunset) ==
    [n \in 1..24 |->
        FMul(FMul(FMul(Num(300), FSub(Lit(1), Power(tau, m[n]))), Lit(Spo)),
             Cos(zenith_angle[n]))]

\* lines 320-321: diffuse sky irradiance, for each hour
DiffuseIrradiance(tau, m, zenith_angle, sunrise, sunset) ==
    [n \in 1..24 |->
        IF OutsideDaylight(time[n], sunrise, sunset) THEN Num(0)
        ELSE FMul(FMul(FMul(Num(300), FSub(Lit(1), Power(tau, m[n]))), Lit(Spo)),
                  Cos(zenith_angle[n]))]

\* GlobalRad without line 331: NaN totals are kept
GlobalRadNoFill(Sb, Sd) ==
    [n \in 1..24 |->
        LET St0 == FAdd(Sb[n], Sd[n])
        IN  IF FLt(St0, Num(0)) THEN Num(0) ELSE St0]

\* GlobalRad without line 328: negative totals are kept
GlobalRadNoClamp(Sb, Sd) ==
    [n \in 1..24 |->
        LET St0 == FAdd(Sb[n], Sd[n])
        IN  IF IsNaN(St0) THEN Num(0) ELSE St0]

\* lines 325-331: the total; negative totals, then NaN totals, become 0
GlobalRad(Sb, Sd) ==
    [n \in 1..24 |->
        LET St0 == FAdd(Sb[n], Sd[n])
            St1 == IF FLt(St0, Num(0)) THEN Num(0) ELSE St0
        IN  IF IsNaN(St1) THEN Num(0) ELSE St1]

\* line 333: np.round(St, 2)
RoundAll(St) == [n \in 1..24 |-> Round2(St[n])]

\* lines 334-335: np.ones(24) * x
Ones24(x) == [n \in 1..24 |-> FMul(Lit(1), x)]

\* ------------------------------------------------------------------------
\* pandas: the result frame
\* ------------------------------------------------------------------------
NoFrame == [index_type |-> "none", index |-> << >>, solar_rad |-> << >>,
            deltat_degC |-> << >>, tau |-> << >>]

\* lines 338-344: a frame with an hourly index and no column
NewFrame(index) == [index_type |-> "DatetimeIndex", index |-> index,
                    solar_rad |-> << >>, deltat_degC |-> << >>, tau |-> << >>]

\* SetItemStatus without the length check
SetItemUnchecked(frame, values) == "ok"

\* frame[col] = values, for a list of values: "ok", or "ValueError" when the
\* number of values is not the number of rows.  A frame with an empty index
\* takes its index (0, 1, ...) from a non-empty list of values.
SetItemStatus(frame, values) ==
    IF Len(frame.index) = 0 /\ Len(values) > 0 THEN "ok"
    ELSE IF Len(values) # Len(frame.index) THEN "ValueError"
    ELSE "ok"

SetItemIndex(frame, values) ==
    IF Len(frame.index) = 0 /\ Len(values) > 0
    THEN [index_type |-> "RangeIndex", index |-> [n \in 1..Len(values) |-> n - 1]]
    ELSE [index_type |-> frame.index_type, index |-> frame.index]

\* ------------------------------------------------------------------------
\* calc_solar_rad as a state machine
\* ------------------------------------------------------------------------
VARIABLES
    lon_dd, lat_dd, alt,    \* the site arguments
    climate_data,           \* the daily table: a sequence of rows
    pc,                     \* "start", "loop", "done" (returned), "raised"
    rain, deltaT,           \* lines 244-246
    lat_rad,                \* line 253
    i,                      \* rows consumed by the loop of line 256
    daily_solar_rad, tao_array, deltat_array,   \* lines 248-250
    solarnoon, solarD, halfdaylength, sunrise, sunset,  \* locals of the loop
    tau, zenith_angle, m, Sb, Sd, St,                   \* body, lines 258-331
    solarcalc,              \* the returned frame
    exception               \* the exception raised, or "none"

locals == <<solarnoon, solarD, halfdaylength, sunrise, sunset, tau,
            zenith_angle, m, Sb, Sd, St>>

vars == <<lon_dd, lat_dd, alt, climate_data, pc, rain, deltaT, lat_rad, i,
          daily_solar_rad, tao_array, deltat_array, locals, solarcalc, exception>>


\* the largest number of rows of an input table
MaxDays == 3

\* first date of the input tables: 1979-12-30, so that tables run into 1980
FirstDate == 364

Longitudes == {Num(-76469), Lit(-15), Lit(0), Num(7500), Lit(15)}
Latitudes == {Lit(-75), Lit(45), Num(56521), Lit(60), Lit(75)}
Altitudes == {Lit(0), Lit(100)}

\* the sites given tables of every length; the others get at most one row
LongSites == {<<Num(-76469), Num(56521), Lit(100)>>}

Row(d, tmax, tmin, p) ==
    [date |-> d, tamax_degC |-> tmax, tamin_degC |-> tmin, ptot_mm |-> p]

\* daily readings <<tamax_degC, tamin_degC, ptot_mm>>: rain and a range of 6,
\* the same with the two temperatures exchanged, no rain and a range of 10.4
\* with maximum < minimum, no rain and a range of 0, rain and a range of 0,
\* exactly 1 mm and a range of exactly 10, a missing maximum
Readings == {
    <<Num(-14800), Num(-20800), Num(1540)>>,
    <<Num(-20800), Num(-14800), Num(1540)>>,
    <<Num(-24400), Num(-14000), Num(410)>>,
    <<Num(-28700), Num(-28700), Num(0)>>,
    <<Num(-32840), Num(-32840), Num(2350)>>,
    <<Num(15000), Num(5000), Num(1000)>>,
    <<NaN, Num(-5000), Num(3000)>> }

FixtureReading == <<Num(-14800), Num(-20800), Num(1540)>>

Dates == FirstDate..(FirstDate + MaxDays - 1)

\* consecutive days from FirstDate with any readings
ConsecutiveTables(maxlen) ==
    UNION {{[n \in 1..len |-> Row(FirstDate + n - 1, r[n][1], r[n][2], r[n][3])] :
                r \in [1..len -> Readings]} : len \in 1..maxlen}

\* any sequence of dates, the empty one included, with the same readings
DatedTables(maxlen) ==
    UNION {{[n \in 1..len |-> Row(d[n], FixtureReading[1], FixtureReading[2],
                                  FixtureReading[3])] :
                d \in [1..len -> Dates]} : len \in 0..maxlen}

Tables(maxlen) == ConsecutiveTables(maxlen) \cup DatedTables(maxlen)

Init ==
    /\ lon_dd \in Longitudes
    /\ lat_dd \in Latitudes
    /\ alt \in Altitudes
    /\ climate_data \in
           Tables(IF <<lon_dd, lat_dd, alt>> \in LongSites THEN MaxDays ELSE 1)
    /\ pc = "start"
    /\ rain = << >>
    /\ deltaT = << >>
    /\ lat_rad = NaN
    /\ i = 0
    /\ daily_solar_rad = << >>
    /\ tao_array = << >>
    /\ deltat_array = << >>
    /\ solarnoon = NaN /\ solarD = NaN /\ halfdaylength = NaN
    /\ sunrise = NaN /\ sunset = NaN /\ tau = NaN
    /\ zenith_angle = << >> /\ m = << >> /\ Sb = << >> /\ Sd = << >> /\ St = << >>
    /\ solarcalc = NoFrame
    /\ exception = "none"

\* lines 243-254
Prepare ==
    /\ pc = "start"
    /\ rain' = [n \in 1..Len(climate_data) |-> Rain(climate_data[n].ptot_mm)]
    /\ deltaT' = [n \in 1..Len(climate_data) |->
                     DeltaT(climate_data[n].tamax_degC, climate_data[n].tamin_degC)]
    /\ lat_rad' = Radians(lat_dd)
    /\ pc' = "loop"
    /\ UNCHANGED <<lon_dd, lat_dd, alt, climate_data, i, daily_solar_rad,
                   tao_array, deltat_array, locals, solarcalc, exception>>

\* lines 256-335: one pass of the loop body, for row i (0-based)
Iterate ==
    /\ pc = "loop"
    /\ i < Len(climate_data)
    /\ solarnoon' = SolarNoon(lon_dd, DayOfYear(climate_data[i + 1].date))
    /\ solarD' = calc_solar_declination(DayOfYear(climate_data[i + 1].date))
    /\ halfdaylength' = calc_halfdaylength(solarD', lat_rad, FALSE)
    /\ sunrise' = FSub(solarnoon', halfdaylength')
    /\ sunset' = FAdd(solarnoon', halfdaylength')
    /\ tau' = TauTemp(TauRain(rain, Len(climate_data), i), lat_dd, deltaT[i + 1])
    /\ zenith_angle' = calc_zenith_angle(lat_rad, solarD', time, solarnoon')
    /\ m' = AirMass(alt, zenith_angle')
    /\ Sb' = BeamIrradiance(tau', m', zenith_angle', sunrise', sunset')
    /\ Sd' = DiffuseIrradiance(tau', m', zenith_angle', sunrise', sunset')
    /\ St' = GlobalRad(Sb', Sd')
    /\ daily_solar_rad' = daily_solar_rad \o RoundAll(St')
    /\ tao_array' = tao_array \o Ones24(tau')
    /\ deltat_array' = deltat_array \o Ones24(deltaT[i + 1])
    /\ i' = i + 1
    /\ UNCHANGED <<lon_dd, lat_dd, alt, climate_data, pc, rain, deltaT, lat_rad,
                   solarcalc, exception>>

\* lines 337-349, after the loop: build and return the frame, or raise
Output ==
    /\ pc = "loop"
    /\ i = Len(climate_data)
    /\ IF Len(climate_data) = 0
       THEN \* climate_data.index[0] on an empty index
            /\ pc' = "raised"
            /\ exception' = "IndexError"
            /\ solarcalc' = solarcalc
       ELSE LET index == DateRange(Stamp(climate_data[1].date, 0),
                                   Stamp(climate_data[Len(climate_data)].date, 0) + 23)
                frame == NewFrame(index)
            IN  IF SetItemStatus(frame, daily_solar_rad) = "ok"
                THEN /\ pc' = "done"
                     /\ exception' = exception
                     /\ solarcalc' =
                            [index_type |-> SetItemIndex(frame, daily_solar_rad).index_type,
                             index |-> SetItemIndex(frame, daily_solar_rad).index,
                             solar_rad |-> daily_solar_rad,
                             deltat_degC |-> deltat_array,
                             tau |-> tao_array]
                ELSE /\ pc' = "raised"
                     /\ exception' = SetItemStatus(frame, daily_solar_rad)
                     /\ solarcalc' = solarcalc
    /\ UNCHANGED <<lon_dd, lat_dd, alt, climate_data, rain, deltaT, lat_rad, i,
                   daily_solar_rad, tao_array, deltat_array, locals>>

Next == Prepare \/ Iterate \/ Output

Spec == Init /\ [][Next]_vars

\* ------------------------------------------------------------------------
\* Properties
\* ------------------------------------------------------------------------
N == Len(climate_data)
DatesOf == [n \in 1..N |-> climate_data[n].date]
Terminated == pc \in {"done", "raised"}

\* the input is a chronologically ordered, gap-free daily table of >= 1 rows
ValidInput ==
    /\ N >= 1
    /\ \A n \in 1..(N - 1) : DatesOf[n + 1] = DatesOf[n] + 1

\* rows 24 * (d - 1) + 1 .. 24 * d of a column: the rows of day d (1-based)
Block(col, d) == SubSeq(col, 24 * (d - 1) + 1, 24 * d)

Repeat24(x) == [n \in 1..24 |-> x]

IsZero(x) == IsNum(x) /\ x.v = 0
IsPrefix(s, t) == Len(s) <= Len(t) /\ SubSeq(t, 1, Len(s)) = s

\* the rows of the day the loop has just processed are that day's: its
\* geometry is that of its date, and its 24 rows are the last ones appended
C1_Rows ==
    /\ (pc = "loop" /\ i >= 1) =>
          /\ Len(daily_solar_rad) = 24 * i
          /\ Len(tao_array) = 24 * i
          /\ Len(deltat_array) = 24 * i
          /\ solarnoon = SolarNoon(lon_dd, DayOfYear(climate_data[i].date))
          /\ solarD = calc_solar_declination(DayOfYear(climate_data[i].date))
          /\ tau = TauTemp(TauRain(rain, N, i - 1), lat_dd, deltaT[i])
          /\ deltaT[i] = DeltaT(climate_data[i].tamax_degC, climate_data[i].tamin_degC)
          /\ Block(daily_solar_rad, i) = RoundAll(St)
          /\ Block(tao_array, i) = Repeat24(tau)
          /\ Block(deltat_array, i) = Repeat24(deltaT[i])
    /\ (Terminated /\ ValidInput) =>
          /\ pc = "done"
          /\ Len(solarcalc.index) = 24 * N
          /\ \A k \in 1..(24 * N) :
                 solarcalc.index[k] = Stamp(climate_data[1].date, 0) + (k - 1)
          /\ solarcalc.index[1] = Stamp(climate_data[1].date, 0)
          /\ solarcalc.index[24 * N] = Stamp(climate_data[N].date, 23)
          /\ solarcalc.solar_rad = daily_solar_rad
          /\ solarcalc.tau = tao_array
          /\ solarcalc.deltat_degC = deltat_array
          /\ Len(daily_solar_rad) = 24 * N

\* rows once appended are never changed or moved
C1_Step ==
    /\ IsPrefix(daily_solar_rad, daily_solar_rad')
    /\ IsPrefix(tao_array, tao_array')
    /\ IsPrefix(deltat_array, deltat_array')

\* C1: for a chronologically ordered, gap-free input of N >= 1 days the run
\* returns 24 * N hourly rows, stamped hour by hour from the first day 00:00
\* to the last day 23:00, and rows 24 * i .. 24 * i + 23 carry the
\* irradiance, deltaT and tau computed for input day i
C1_HourlyRows == []C1_Rows /\ [][C1_Step]_vars

C1_Witness == pc = "done" /\ ValidInput /\ N >= 2 /\ Len(solarcalc.index) = 24 * N

\* rain(j) of the claim, for the 0-based day j: more than 1 mm of precipitation
ClaimRain(j) ==
    IsNum(climate_data[j + 1].ptot_mm) /\ climate_data[j + 1].ptot_mm.v > Scale

\* the transmittance of the 0-based day d by rules 1-4, as the claim states it
ClaimTau(d) ==
    IF ClaimRain(d) /\ d > 0 /\ ClaimRain(d - 1) THEN Num(300)
    ELSE IF ClaimRain(d) THEN Num(400)
    ELSE IF d < N - 1 /\ ClaimRain(d + 1) THEN Num(600)
    ELSE Num(700)

\* C2: the transmittance left by rules 1-4 is 0.30 on a rainy day after a
\* rainy day, 0.40 on a rainy day that is the first day or follows a dry day,
\* 0.60 on a dry day before a rainy day, 0.70 otherwise; day 0 has no
\* predecessor and the last day no successor
C2_RainRules ==
    /\ pc # "start" =>
          \A d \in 0..(N - 1) : TauRain(rain, N, d) = ClaimTau(d)
    /\ (pc # "start" /\ i >= 1) =>
          tau = TauTemp(ClaimTau(i - 1), lat_dd, deltaT[i])

C2_Witness ==
    /\ pc = "done" /\ N >= 3
    /\ rain[1] = 1 /\ rain[2] = 1 /\ rain[3] = 0
    /\ TauRain(rain, N, 0) = Num(400)
    /\ TauRain(rain, N, 1) = Num(300)

InUnitInterval(x) == IsNum(x) /\ 0 < x.v /\ x.v <= Scale

\* C3: the transmittance reported after all five rules lies in (0, 1]; the
\* division of rule 5 is not applied when deltaT = 0, and where it is applied
\* the divisor 11 - deltaT is positive
C3_TauInUnitInterval ==
    /\ \A k \in 1..Len(tao_array) : InUnitInterval(tao_array[k])
    /\ \A k \in 1..Len(solarcalc.tau) : InUnitInterval(solarcalc.tau[k])
    /\ (pc # "start" /\ i >= 1) =>
          /\ InUnitInterval(tau)
          /\ FEq(deltaT[i], Lit(0)) => tau = TauRain(rain, N, i - 1)
          /\ tau # TauRain(rain, N, i - 1) =>
                /\ FGt(FSub(Lit(11), deltaT[i]), Lit(0))
                /\ tau = FDiv(TauRain(rain, N, i - 1), FSub(Lit(11), deltaT[i]))

C3_Witness ==
    /\ pc = "done" /\ i >= 1
    /\ tau # TauRain(rain, N, i - 1)
    /\ \E d \in 1..N : FEq(deltaT[d], Lit(0))

\* hour n - 1 of the day just processed lies before sunrise or after sunset
ClaimNight(n) ==
    /\ sunrise = FSub(solarnoon, halfdaylength)
    /\ sunset = FAdd(solarnoon, halfdaylength)
    /\ IsNum(sunrise) /\ IsNum(sunset)
    /\ (1000 * (n - 1) < sunrise.v \/ 1000 * (n - 1) > sunset.v)

ClaimDaylight(n) ==
    /\ IsNum(sunrise) /\ IsNum(sunset)
    /\ sunrise.v <= 1000 * (n - 1) /\ 1000 * (n - 1) <= sunset.v

\* the reported irradiance of hour n - 1 of the day just processed
Reported(n) == daily_solar_rad[24 * (i - 1) + n]

C5_NonNegative ==
    /\ \A k \in 1..Len(daily_solar_rad) :
           IsNum(daily_solar_rad[k]) /\ daily_solar_rad[k].v >= 0
    /\ \A k \in 1..Len(solarcalc.solar_rad) :
           IsNum(solarcalc.solar_rad[k]) /\ solarcalc.solar_rad[k].v >= 0
    /\ (pc # "start" /\ i >= 1) =>
           \A n \in 1..24 :
               (IsNaN(FAdd(Sb[n], Sd[n])) \/ FLt(FAdd(Sb[n], Sd[n]), Num(0)))
                   => IsZero(St[n]) /\ IsZero(Reported(n))
    /\ pc = "loop" => exception = "none"

C5_Witness ==
    /\ pc = "done" /\ i >= 1
    /\ \E n \in 1..24 : IsNaN(FAdd(Sb[n], Sd[n])) /\ IsZero(Reported(n))

\* days from the first date to the last date of the table, both included
Span == climate_data[N].date - climate_data[1].date + 1

\* C6 as stated: a table that is empty or whose dates are not consecutive
\* days in increasing order stops the run with an error, and no table is
\* returned
C6_MalformedIsFatal ==
    (Terminated /\ ~ValidInput) => (pc = "raised" /\ solarcalc = NoFrame)

\* C6 amended: the run stops with an error, and returns no table, exactly when
\* the table is empty (IndexError) or its last date is not before its first
\* and its number of rows differs from the number of days from the first to
\* the last date (ValueError); any other table returns a frame of 24 rows a
\* row, also when its dates repeat, leave gaps or are out of order
C6_FatalOnLengthMismatch ==
    Terminated =>
        /\ pc = "raised" <=> (N = 0 \/ (Span >= 1 /\ N # Span))
        /\ pc = "raised" => solarcalc = NoFrame
        /\ (pc = "raised" /\ N = 0) => exception = "IndexError"
        /\ (pc = "raised" /\ N > 0) => exception = "ValueError"
        /\ pc = "done" => /\ exception = "none"
                          /\ Len(solarcalc.solar_rad) = 24 * N
                          /\ Len(solarcalc.index) = 24 * N

C6_Witness ==
    /\ pc = "raised" /\ exception = "ValueError"
    /\ N = 2 /\ climate_data[2].date = climate_data[1].date + 2

MissingValue(d) ==
    \/ IsNaN(climate_data[d].tamax_degC)
    \/ IsNaN(climate_data[d].tamin_degC)
    \/ IsNaN(climate_data[d].ptot_mm)

\* C7: a daily record with a missing value makes the whole run fail; no table
\* is returned in which that day carries values derived from the missing field
C7_MissingValueIsFatal ==
    (Terminated /\ \E d \in 1..N : MissingValue(d)) =>
        (pc = "raised" /\ solarcalc = NoFrame)

\* the day just processed has no half-day length: the argument of the arccos
\* lies outside [-1, 1]
NoHalfDay ==
    /\ pc # "start" /\ i >= 1
    /\ ~IsNaN(HalfDayRatio(solarD, lat_rad, FALSE))
    /\ (FGt(HalfDayRatio(solarD, lat_rad, FALSE), Lit(1))
          \/ FLt(HalfDayRatio(solarD, lat_rad, FALSE), Lit(-1)))

ClaimMeridian(lon) == 15000 * (IAbs(lon.v) \div 15000) * ISgn(lon.v)

\* C9: for every longitude, calc_long_corr is (longitude - meridian) * 24/360
\* with the meridian the longitude rounded toward zero to a multiple of 15
\* degrees: a defined number below 1 hour in absolute value, with the sign of
\* the longitude, and 0 when the longitude is a multiple of 15, 0 included
C9_LongCorrDefined ==
    (pc # "start" /\ i >= 1) =>
        /\ IsNum(calc_long_corr(lon_dd))
        /\ calc_long_corr(lon_dd) =
               FMul(Num(lon_dd.v - ClaimMeridian(lon_dd)), FDiv(Lit(24), Lit(360)))
        /\ IAbs(calc_long_corr(lon_dd).v) < Scale
        /\ ISgn(calc_long_corr(lon_dd).v) \in {0, ISgn(lon_dd.v)}
        /\ lon_dd.v % 15000 = 0 => calc_long_corr(lon_dd).v = 0
        /\ solarnoon = FSub(FSub(Lit(12), calc_long_corr(lon_dd)),
                            calc_eqn_of_time(DayOfYear(climate_data[i].date)))
        /\ IsNum(solarnoon)

\* |tamax - tamin| of row d, as the claim states it
ClaimDeltaT(d) ==
    LET a == climate_data[d].tamax_degC
        b == climate_data[d].tamin_degC
    IN  IF IsNum(a) /\ IsNum(b) THEN Num(IF a.v >= b.v THEN a.v - b.v ELSE b.v - a.v)
        ELSE NaN

\* the claim's condition for rule 5: |latitude| < 60 and 0 < deltaT <= 10
ClaimDivides(d) ==
    /\ IAbs(lat_dd.v) < 60 * Scale
    /\ IsNum(ClaimDeltaT(d))
    /\ 0 < ClaimDeltaT(d).v /\ ClaimDeltaT(d).v <= 10 * Scale

\* C10: the reported tau is tau0 / (11 - deltaT) exactly when |latitude| < 60
\* and 0 < deltaT <= 10, and tau0, the value left by rules 1-4, in every
\* other case; deltaT is |tamax - tamin|, so that exchanging the two
\* temperatures of a record changes neither deltaT nor tau
C10_TemperatureRule ==
    /\ pc # "start" => \A d \in 1..N : deltaT[d] = ClaimDeltaT(d)
    /\ (pc # "start" /\ i >= 1) =>
          /\ ClaimDivides(i) =>
                 tau = FDiv(TauRain(rain, N, i - 1), Num(11 * Scale - ClaimDeltaT(i).v))
          /\ ~ClaimDivides(i) => tau = TauRain(rain, N, i - 1)
          /\ Block(tao_array, i) = Repeat24(tau)
          /\ Block(deltat_array, i) = Repeat24(ClaimDeltaT(i))
          /\ deltaT[i] = DeltaT(climate_data[i].tamin_degC, climate_data[i].tamax_degC)
          /\ tau = TauTemp(TauRain(rain, N, i - 1), lat_dd,
                           DeltaT(climate_data[i].tamin_degC, climate_data[i].tamax_degC))

C10_Witness ==
    /\ pc = "done" /\ i >= 1
    /\ FLt(climate_data[i].tamax_degC, climate_data[i].tamin_degC)
    /\ ClaimDivides(i)
    /\ tau # TauRain(rain, N, i - 1)

\* the readings given to the other days of an alternative series: a rainy
\* day, a dry day, a rainy day with a missing maximum
OtherReadings ==
    { <<Num(-14800), Num(-20800), Num(1540)>>,
      <<Num(-24400), Num(-14000), Num(410)>>,
      <<NaN, Num(-5000), Num(3000)>> }

\* the series of the length and dates of the input that keep the record of
\* day d (1-based) and give any readings to the other days
SeriesAround(d) ==
    { [n \in 1..N |->
          IF n = d THEN climate_data[n]
          ELSE Row(climate_data[n].date, r[n][1], r[n][2], r[n][3])] :
      r \in [1..N -> OtherReadings] }

\* the rain flags of a series, and whether two series agree on that of day n
RainOf(series) == [n \in 1..Len(series) |-> Rain(series[n].ptot_mm)]
SameRain(series, n) ==
    (n >= 1 /\ n <= N) => Rain(series[n].ptot_mm) = Rain(climate_data[n].ptot_mm)

\* tau and deltaT of day d (1-based) in a run on the given series
TauIn(series, d) ==
    TauTemp(TauRain(RainOf(series), Len(series), d - 1), lat_dd,
            DeltaT(series[d].tamax_degC, series[d].tamin_degC))
DeltaTIn(series, d) == DeltaT(series[d].tamax_degC, series[d].tamin_degC)

\* the geometry and the irradiance of the day just processed are those of
\* the site, the day's date and the day's tau
C11_FromSiteDateTau ==
    /\ solarnoon = SolarNoon(lon_dd, DayOfYear(climate_data[i].date))
    /\ solarD = calc_solar_declination(DayOfYear(climate_data[i].date))
    /\ halfdaylength = calc_halfdaylength(solarD, Radians(lat_dd), FALSE)
    /\ sunrise = FSub(solarnoon, halfdaylength)
    /\ sunset = FAdd(solarnoon, halfdaylength)
    /\ zenith_angle = calc_zenith_angle(Radians(lat_dd), solarD, time, solarnoon)
    /\ m = AirMass(alt, zenith_angle)
    /\ Sb = BeamIrradiance(tau, m, zenith_angle, sunrise, sunset)
    /\ Sd = DiffuseIrradiance(tau, m, zenith_angle, sunrise, sunset)
    /\ St = GlobalRad(Sb, Sd)
    /\ Block(daily_solar_rad, i) = RoundAll(St)
    /\ Block(tao_array, i) = Repeat24(tau)
    /\ Block(deltat_array, i) = Repeat24(deltaT[i])

\* C11: the 24 rows of day i are those of the site, day i's date and record
\* and the rain flags of days i-1 and i+1: every series of the same length
\* and dates that agrees on day i's record and on those two flags gives day i
\* the same irradiance, deltaT and tau; the flag of day i-1 counts only when
\* day i is rainy, that of day i+1 only when day i is not rainy
C11_DayLocal ==
    (pc # "start" /\ i >= 1) =>
        /\ C11_FromSiteDateTau
        /\ \A other \in SeriesAround(i) :
              /\ deltaT[i] = DeltaTIn(other, i)
              /\ (SameRain(other, i - 1) /\ SameRain(other, i + 1)) =>
                     tau = TauIn(other, i)
              /\ (rain[i] = 1 /\ SameRain(other, i - 1)) => tau = TauIn(other, i)
              /\ (rain[i] = 0 /\ SameRain(other, i + 1)) => tau = TauIn(other, i)

C11_Witness ==
    /\ pc = "loop" /\ N = 3 /\ i = 2 /\ rain[2] = 1 /\ rain[1] = 1 /\ rain[3] = 0
    /\ tau # Num(700)
    /\ \E other \in SeriesAround(i) :
          /\ SameRain(other, 1) /\ ~SameRain(other, 3)
          /\ other[1] # climate_data[1]
          /\ tau = TauIn(other, i)

====
